---- MODULE Spec2Model ----
(***************************************************************************)
(* Orbit propagation and ground-track construction of backend/app.py:      *)
(* the satellite registry (create_satellite, delete_satellite, also served *)
(* on concurrent threads), the three propagation handlers                  *)
(* (propagate_satellite, generate_ground_track, propagate_all_satellites), *)
(* the antimeridian segmenter (plotly_map_plot and its inline copy) and    *)
(* the two-line element text parser.                                       *)
(*                                                                         *)
(* Time is counted in microseconds (the resolution of datetime) from a     *)
(* reference instant.  A step size is the rational num/den minutes that    *)
(* float(data['step_size']) holds.  The propagation capability (Skyfield)  *)
(* is a deterministic black box: its answers are chosen on first use and   *)
(* remembered in `oracle` / `constructed`.                                 *)
(***************************************************************************)
EXTENDS Integers, Sequences, FiniteSets, TLC

VARIABLES
    satellites,        \* the in-memory registry (app.py:15)
    pc,                \* position of the request being served
    op,                \* which handler serves the request
    satellite_id,      \* path parameter of the single-satellite handlers
    start_time,        \* parsed data['start_time']
    end_time,          \* parsed data['end_time']
    step_size,         \* float(data['step_size']), minutes, as num/den
    sat_idx,           \* position of the `for satellite_data in satellites` iterator
    satellite_data,    \* the registry entry being propagated
    tle_lines,         \* satellite_data['tle'].strip().split('\n')
    current_time,      \* loop variable of the sampling loop
    times, latitudes, longitudes, elevations, positions, velocities,
    combined_results,  \* tracks retained by propagate_all_satellites
    response,          \* what the handler returned
    oracle,            \* answers the capability has given: <<lines, second>> -> result
    constructed,       \* whether EarthSatellite(lines) succeeded: lines -> BOOLEAN
    calls,             \* every satellite.at(t) invocation of the request, in order
    pending,           \* satellite dicts a create_satellite has built, not yet appended
    earlier            \* the request served before this one, and its response

vars == <<satellites, pc, op, satellite_id, start_time, end_time, step_size,
          sat_idx, satellite_data, tle_lines, current_time,
          times, latitudes, longitudes, elevations, positions, velocities,
          combined_results, response, oracle, constructed, calls,
          pending, earlier>>

---------------------------------------------------------------------------
(* Bounds of the model *)

MaxSats == 2          \* registry size
MaxSamples == 3       \* samples one sampling loop may collect
MaxTleLen == 4        \* length of an element text given to the parser alone
MaxPoints == 4        \* length of a point sequence given to the segmenter alone
MaxFleet == 12        \* registry size of the bulk request over a large registry

(* Program constants *)

UsPerMinute == 60000000   \* timedelta(minutes=...) in datetime's microseconds
UsPerSecond == 1000000    \* current_time.second drops the microsecond field

---------------------------------------------------------------------------
(* Generic sequence helpers *)

RECURSIVE Sum(_)
Sum(s) == IF s = <<>> THEN 0 ELSE Head(s) + Sum(Tail(s))

RECURSIVE Flatten(_)
Flatten(ss) == IF ss = <<>> THEN <<>> ELSE Head(ss) \o Flatten(Tail(ss))

Abs(x) == IF x < 0 THEN -x ELSE x

SeqsUpTo(S, n) == UNION {[1..k -> S] : k \in 0..n}

---------------------------------------------------------------------------
(* Element Set Parser: satellite_data['tle'].strip().split('\n') *)

NL == "\n"
SP == " "
Chars == {"1", "2", SP, NL}

IsSpace(c) == c \in {SP, NL}

RECURSIVE LStrip(_)
LStrip(s) == IF s # <<>> /\ IsSpace(Head(s)) THEN LStrip(Tail(s)) ELSE s

RECURSIVE RStrip(_)
RStrip(s) ==
    IF s # <<>> /\ IsSpace(s[Len(s)]) THEN RStrip(SubSeq(s, 1, Len(s) - 1)) ELSE s

Strip(s) == RStrip(LStrip(s))

RECURSIVE SplitFrom(_, _, _)
SplitFrom(s, cur, acc) ==
    IF s = <<>> THEN Append(acc, cur)
    ELSE IF Head(s) = NL THEN SplitFrom(Tail(s), <<>>, Append(acc, cur))
    ELSE SplitFrom(Tail(s), Append(cur, Head(s)), acc)

Split(s) == SplitFrom(s, <<>>, <<>>)

\* fault variant: split without strip()
TleLinesNoStrip(tle) == Split(tle)

\* satellite_data['tle'].strip().split('\n')
TleLines(tle) == Split(Strip(tle))

\* fault variant: anything with at least two lines passes
TleAcceptedAtLeastTwo(lines) == Len(lines) >= 2

\* not (len(tle_lines) != 2)
TleAccepted(lines) == Len(lines) = 2

---------------------------------------------------------------------------
(* Time Grid: timedelta(minutes=step_size), ts.utc(...), isoformat() *)

\* step sizes a request may carry, in minutes: 1, 0, -1, 2e-8 (1.2 microseconds)
\* and 4e-9 (0.24 microseconds)
Steps == { [num |-> 1, den |-> 1],
           [num |-> 0, den |-> 1],
           [num |-> -1, den |-> 1],
           [num |-> 2, den |-> 100000000],
           [num |-> 1, den |-> 250000000] }

\* start and end instants a request may carry, microseconds from the reference
StartValues == {0, 1}
EndValues == {0, 1, UsPerMinute, 2 * UsPerMinute}

\* timedelta rounds the float to whole microseconds, half to even
RoundHalfEven(n, d) ==
    LET q == n \div d
        r == n % d
    IN  IF 2 * r < d THEN q
        ELSE IF 2 * r > d THEN q + 1
        ELSE IF q % 2 = 0 THEN q ELSE q + 1

Timedelta(step) == RoundHalfEven(step.num * UsPerMinute, step.den)

\* ts.utc(year, month, day, hour, minute, second): the whole second of t
UtcInstant(t) == t \div UsPerSecond

\* current_time.isoformat(): seconds and the microsecond field
IsoFormat(t) == [sec |-> t \div UsPerSecond, us |-> t % UsPerSecond]

---------------------------------------------------------------------------
(* Propagation capability (Skyfield), a black box *)

\* Two ground tracks, one subpoint a minute.  OrbitA crosses the antimeridian
\* between its second and third minute; OrbitB moves by exactly 180 degrees,
\* then crosses.
OrbitA == << [lat |-> 10, lon |-> 170], [lat |-> 20, lon |-> 175],
             [lat |-> 30, lon |-> -179], [lat |-> 40, lon |-> -170] >>
OrbitB == << [lat |-> -5, lon |-> 10], [lat |-> -15, lon |-> -170],
             [lat |-> -25, lon |-> 175], [lat |-> -35, lon |-> 0] >>

Orbit(lines) == IF lines[1] = <<"1">> THEN OrbitA ELSE OrbitB

\* the subpoint of the element set `lines` at the whole second `instant`
Subpoint(lines, instant) ==
    Orbit(lines)[((instant \div 60) % Len(Orbit(lines))) + 1]

Failure == [ok |-> FALSE, lat |-> 0, lon |-> 0, elev |-> 0,
            position |-> <<0, 0, 0>>, velocity |-> <<0, 0, 0>>]

\* what satellite.at(t) may do for `key` = <<lines, instant>>: raise, or return
CapabilityResults(key) ==
    LET p == Subpoint(key[1], key[2])
    IN  { Failure,
          [ok |-> TRUE, lat |-> p.lat, lon |-> p.lon, elev |-> 400000 + p.lat,
           position |-> <<p.lon, p.lat, 6800>>, velocity |-> <<7, p.lat, p.lon>>] }

\* the capability is deterministic: the remembered answer, or any on first use
Answers(key) ==
    IF key \in DOMAIN oracle THEN {oracle[key]} ELSE CapabilityResults(key)

ConstructAnswers(lines) ==
    IF lines \in DOMAIN constructed THEN {constructed[lines]} ELSE BOOLEAN

---------------------------------------------------------------------------
(* Antimeridian Segmenter and Plot Descriptor Builder: plotly_map_plot *)

\* abs(longitudes[i+1] - longitudes[i]) > 180
PlotCrossing(a, b) == Abs(b - a) > 180

\* fault variant: the point before the crossing opens the next segment too
PlotNewSegmentDup(seq, i) == <<seq[i]>>

\* current_lat_segment = [] ; current_lon_segment = []
PlotNewSegment(seq, i) == <<>>

\* fault variant: a last segment of a single point is not emitted
PlotFinalSegmentNeedsTwo(lat_segments, lon_segments, cur_lat, cur_lon) ==
    IF Len(cur_lat) > 1
    THEN [lat_segments |-> Append(lat_segments, cur_lat),
          lon_segments |-> Append(lon_segments, cur_lon)]
    ELSE [lat_segments |-> lat_segments, lon_segments |-> lon_segments]

\* if current_lat_segment: append the last segment to both lists
PlotFinalSegment(lat_segments, lon_segments, cur_lat, cur_lon) ==
    IF cur_lat # <<>>
    THEN [lat_segments |-> Append(lat_segments, cur_lat),
          lon_segments |-> Append(lon_segments, cur_lon)]
    ELSE [lat_segments |-> lat_segments, lon_segments |-> lon_segments]

RECURSIVE PlotWalk(_, _, _, _, _, _, _)
PlotWalk(lats, lons, i, lat_segments, lon_segments, cur_lat, cur_lon) ==
    IF i > Len(lons)
    THEN PlotFinalSegment(lat_segments, lon_segments, cur_lat, cur_lon)
    ELSE LET lat_i == Append(cur_lat, lats[i])
             lon_i == Append(cur_lon, lons[i])
         IN  IF i < Len(lons) /\ PlotCrossing(lons[i], lons[i + 1])
             THEN PlotWalk(lats, lons, i + 1,
                           Append(lat_segments, lat_i), Append(lon_segments, lon_i),
                           PlotNewSegment(lats, i), PlotNewSegment(lons, i))
             ELSE PlotWalk(lats, lons, i + 1, lat_segments, lon_segments, lat_i, lon_i)

PlotSegments(lats, lons) == PlotWalk(lats, lons, 1, <<>>, <<>>, <<>>, <<>>)

PlotColor == "#EDB120"
NoName == ""

\* go.Scattermapbox(..., showlegend=False) for every segment
PlotTraces(segs) ==
    [i \in 1..Len(segs.lat_segments) |->
        [lon |-> segs.lon_segments[i], lat |-> segs.lat_segments[i],
         color |-> PlotColor, name |-> NoName, showlegend |-> FALSE]]

\* center is [lon, lat]; the layout reads center[0] as lon and center[1] as lat
plotly_map_plot(lats, lons, zoom, center) ==
    [data |-> PlotTraces(PlotSegments(lats, lons)),
     center |-> [lon |-> center[1], lat |-> center[2]],
     zoom |-> zoom]

---------------------------------------------------------------------------
(* The inline copy of the segmenter and the combined figure of             *)
(* propagate_all_satellites                                                *)

colors == << "#1f77b4", "#ff7f0e", "#2ca02c", "#d62728", "#9467bd",
             "#8c564b", "#e377c2", "#7f7f7f", "#bcbd22", "#17becf" >>

\* fault variant: >= in place of >
BulkCrossingGE(a, b) == Abs(b - a) >= 180

\* abs(longitudes[i+1] - longitudes[i]) > 180, on the result's lists
BulkCrossing(a, b) == Abs(b - a) > 180

\* fault variant: the point before the crossing opens the next segment too
BulkNewSegmentDup(seq, i) == <<seq[i]>>

\* current_lat_segment = [] ; current_lon_segment = []
BulkNewSegment(seq, i) == <<>>

RECURSIVE BulkWalk(_, _, _, _, _, _)
BulkWalk(data, i, lat_segments, lon_segments, cur_lat, cur_lon) ==
    IF i > Len(data.longitudes)
    THEN IF cur_lat # <<>>
         THEN [lat_segments |-> Append(lat_segments, cur_lat),
               lon_segments |-> Append(lon_segments, cur_lon)]
         ELSE [lat_segments |-> lat_segments, lon_segments |-> lon_segments]
    ELSE LET lat_i == Append(cur_lat, data.latitudes[i])
             lon_i == Append(cur_lon, data.longitudes[i])
         IN  IF i < Len(data.longitudes)
                /\ BulkCrossing(data.longitudes[i], data.longitudes[i + 1])
             THEN BulkWalk(data, i + 1,
                           Append(lat_segments, lat_i), Append(lon_segments, lon_i),
                           BulkNewSegment(data.latitudes, i),
                           BulkNewSegment(data.longitudes, i))
             ELSE BulkWalk(data, i + 1, lat_segments, lon_segments, lat_i, lon_i)

BulkSegments(data) == BulkWalk(data, 1, <<>>, <<>>, <<>>, <<>>)

\* fault variant: the color follows the satellite's id, not its output position
BulkTracesById(result, idx) ==
    LET segs == BulkSegments(result.propagation_data)
        satellite_color == colors[((result.satellite_id - 1) % Len(colors)) + 1]
    IN  [i \in 1..Len(segs.lat_segments) |->
            [lon |-> segs.lon_segments[i], lat |-> segs.lat_segments[i],
             color |-> satellite_color, name |-> result.satellite_name,
             showlegend |-> (i = 1)]]

\* idx counts from 0 as enumerate(combined_results) does
BulkTraces(result, idx) ==
    LET segs == BulkSegments(result.propagation_data)
        satellite_color == colors[(idx % Len(colors)) + 1]
    IN  [i \in 1..Len(segs.lat_segments) |->
            [lon |-> segs.lon_segments[i], lat |-> segs.lat_segments[i],
             color |-> satellite_color, name |-> result.satellite_name,
             showlegend |-> (i = 1)]]

RECURSIVE BulkAllTraces(_, _)
BulkAllTraces(results, idx) ==
    IF idx >= Len(results) THEN <<>>
    ELSE BulkTraces(results[idx + 1], idx) \o BulkAllTraces(results, idx + 1)

RECURSIVE Extend(_, _)
Extend(results, field) ==
    IF results = <<>> THEN <<>>
    ELSE Head(results).propagation_data[field] \o Extend(Tail(results), field)

\* sum(xs) / len(xs), kept as the fraction num/den
Mean(xs) == [num |-> Sum(xs), den |-> Len(xs)]

\* sum(all) / len(all) if all else 0
MeanOrZero(xs) == IF xs # <<>> THEN Mean(xs) ELSE [num |-> 0, den |-> 1]

\* fault variant: the center is taken from the first track alone
BulkFigureFirstTrack(results) ==
    [data |-> BulkAllTraces(results, 0),
     center |-> [lon |-> MeanOrZero(results[1].propagation_data.longitudes),
                 lat |-> MeanOrZero(results[1].propagation_data.latitudes)],
     zoom |-> 1]

\* the traces of every result; center = mean of all_lons / all_lats; zoom = 1
BulkFigure(results) ==
    [data |-> BulkAllTraces(results, 0),
     center |-> [lon |-> MeanOrZero(Extend(results, "longitudes")),
                 lat |-> MeanOrZero(Extend(results, "latitudes"))],
     zoom |-> 1]

---------------------------------------------------------------------------
(* State after construction, and the values a request may carry *)

Tle1 == <<"1", NL, "2">>
Tle2 == <<SP, "2", NL, "1", NL>>
TleBad == <<"1", NL, NL, "2">>

\* request bodies of POST /api/satellites
Payloads == { [name |-> "ISS", tle |-> Tle1],
              [name |-> "HST", tle |-> Tle2],
              [name |-> "BAD", tle |-> TleBad] }

NoSatellite == [id |-> 0, name |-> "", tle |-> <<>>]
NoStep == [num |-> 0, den |-> 1]
NoResponse == [status |-> 0]
NoEarlier == [op |-> "none"]

ErrNotFound == "Satellite not found"
ErrIdNotFound == "Satellite with ID not found"
ErrInvalidTle == "Invalid TLE data format"
ErrPropagation == "Propagation failed"
ErrGroundTrack == "Ground track generation failed"
ErrNoSatellites == "No satellites available to propagate"
ErrNonePropagated == "Failed to propagate any satellites"

ErrorResponse(status, error) == [status |-> status, error |-> error]

\* no request received yet
Idle ==
    /\ pc = "idle"
    /\ op = "none"
    /\ satellite_id = 0
    /\ start_time = 0
    /\ end_time = 0
    /\ step_size = NoStep
    /\ sat_idx = 0
    /\ satellite_data = NoSatellite
    /\ tle_lines = <<>>
    /\ current_time = 0
    /\ times = <<>>
    /\ latitudes = <<>>
    /\ longitudes = <<>>
    /\ elevations = <<>>
    /\ positions = <<>>
    /\ velocities = <<>>
    /\ combined_results = <<>>
    /\ response = NoResponse
    /\ oracle = << >>
    /\ constructed = << >>
    /\ calls = <<>>
    /\ pending = <<>>
    /\ earlier = NoEarlier

Init ==
    /\ satellites = <<>>
    /\ Idle

requestVars == <<op, satellite_id, start_time, end_time, step_size>>
trackVars == <<times, latitudes, longitudes, elevations, positions, velocities>>
loopVars == <<sat_idx, satellite_data, tle_lines, current_time>>
envVars == <<oracle, constructed, calls>>
asideVars == <<pending, earlier>>

---------------------------------------------------------------------------
(* Satellite registry *)

create_satellite(data) ==
    /\ UNCHANGED asideVars
    /\ pc = "idle"
    /\ Len(satellites) < MaxSats
    /\ satellites' = Append(satellites,
                            [id |-> Len(satellites) + 1, name |-> data.name,
                             tle |-> data.tle])
    /\ UNCHANGED <<pc, requestVars, loopVars, trackVars, combined_results,
                   response, envVars>>

\* fault variant: the index of the last entry whose id matches
FindLastIndex(id) ==
    LET hits == {i \in 1..Len(satellites) : satellites[i].id = id}
    IN  IF hits = {} THEN 0 ELSE CHOOSE i \in hits : \A j \in hits : j <= i

\* the index of the first entry whose id matches, 0 when there is none
FindIndex(id) ==
    LET hits == {i \in 1..Len(satellites) : satellites[i].id = id}
    IN  IF hits = {} THEN 0 ELSE CHOOSE i \in hits : \A j \in hits : i <= j

RemoveAt(seq, i) == SubSeq(seq, 1, i - 1) \o SubSeq(seq, i + 1, Len(seq))

\* the registry without its first entry of this id
DeleteFrom(registry, i) == IF i = 0 THEN registry ELSE RemoveAt(registry, i)

DeletedBody(removed) == [status |-> 200, deleted |-> removed]

delete_satellite(id) ==
    /\ pc = "idle"
    /\ op' = "delete_satellite"
    /\ satellite_id' = id
    /\ LET satellite_index == FindIndex(id)
       IN  /\ satellites' = DeleteFrom(satellites, satellite_index)
           /\ response' = IF satellite_index # 0
                          THEN DeletedBody(satellites[satellite_index])
                          ELSE ErrorResponse(404, ErrIdNotFound)
    /\ UNCHANGED <<pc, start_time, end_time, step_size, loopVars, trackVars,
                   combined_results, envVars, asideVars>>

---------------------------------------------------------------------------
(* One pass of the sampling loop body, shared shape of the three copies *)

SampleKey == <<tle_lines, UtcInstant(current_time)>>

Remember(f, k, v) == IF k \in DOMAIN f THEN f ELSE f @@ (k :> v)

CallCapability(r) ==
    /\ oracle' = Remember(oracle, SampleKey, r)
    /\ calls' = Append(calls, [idx |-> sat_idx, instant |-> UtcInstant(current_time),
                               at |-> current_time])

Position(r) == [x |-> r.position[1], y |-> r.position[2], z |-> r.position[3]]
Velocity(r) == [x |-> r.velocity[1], y |-> r.velocity[2], z |-> r.velocity[3]]

\* fault variant: the times list is not started afresh with the other lists
ClearTrackKeepsTimes ==
    /\ latitudes' = <<>>
    /\ longitudes' = <<>>
    /\ elevations' = <<>>
    /\ positions' = <<>>
    /\ velocities' = <<>>
    /\ UNCHANGED times

\* fault variant: the lists outlive the request that filled them
ClearTrackKeeps == UNCHANGED trackVars

\* times = [] ; latitudes = [] ; ... : fresh lists for every track
ClearTrack ==
    /\ times' = <<>>
    /\ latitudes' = <<>>
    /\ longitudes' = <<>>
    /\ elevations' = <<>>
    /\ positions' = <<>>
    /\ velocities' = <<>>

FullTrack ==
    [times |-> times, latitudes |-> latitudes, longitudes |-> longitudes,
     elevations |-> elevations, positions |-> positions, velocities |-> velocities]

---------------------------------------------------------------------------
(* propagate_satellite *)

\* fault variant: the error response carries the samples collected so far
PropagateFailureWithPartial(error) ==
    [status |-> 500, error |-> error, propagation_data |-> FullTrack]

\* except Exception as e: return jsonify({'error': ...}), 500
PropagateFailure(error) == ErrorResponse(500, error)

PropagateSatelliteBegin(sid, st, en, step) ==
    /\ UNCHANGED asideVars
    /\ pc = "idle"
    /\ op' = "propagate_satellite"
    /\ satellite_id' = sid
    /\ start_time' = st
    /\ end_time' = en
    /\ step_size' = step
    /\ UNCHANGED <<satellites, combined_results, oracle, calls>>
    /\ LET idx == FindIndex(sid)
           lines == TleLines(satellites[idx].tle)
       IN  IF idx = 0
           THEN /\ response' = ErrorResponse(404, ErrNotFound)
                /\ pc' = "done"
                /\ UNCHANGED <<loopVars, trackVars, constructed>>
           ELSE IF ~TleAccepted(lines)
           THEN /\ response' = ErrorResponse(400, ErrInvalidTle)
                /\ pc' = "done"
                /\ sat_idx' = idx
                /\ satellite_data' = satellites[idx]
                /\ tle_lines' = lines
                /\ UNCHANGED <<current_time, trackVars, constructed>>
           ELSE \E built \in ConstructAnswers(lines) :
                /\ constructed' = Remember(constructed, lines, built)
                /\ sat_idx' = idx
                /\ satellite_data' = satellites[idx]
                /\ tle_lines' = lines
                /\ ClearTrack
                /\ IF built
                   THEN /\ current_time' = st
                        /\ pc' = "sampling"
                        /\ UNCHANGED response
                   ELSE /\ response' = PropagateFailure(ErrPropagation)
                        /\ pc' = "done"
                        /\ UNCHANGED current_time

PropagateSatelliteSample ==
    /\ UNCHANGED asideVars
    /\ pc = "sampling"
    /\ op = "propagate_satellite"
    /\ current_time <= end_time
    /\ Len(times) < MaxSamples
    /\ UNCHANGED <<satellites, requestVars, sat_idx, satellite_data, tle_lines,
                   combined_results, constructed>>
    /\ \E r \in Answers(SampleKey) :
        /\ CallCapability(r)
        /\ IF r.ok
           THEN /\ latitudes' = Append(latitudes, r.lat)
                /\ longitudes' = Append(longitudes, r.lon)
                /\ elevations' = Append(elevations, r.elev)
                /\ positions' = Append(positions, Position(r))
                /\ velocities' = Append(velocities, Velocity(r))
                /\ times' = Append(times, IsoFormat(current_time))
                /\ current_time' = current_time + Timedelta(step_size)
                /\ UNCHANGED <<pc, response>>
           ELSE /\ response' = PropagateFailure(ErrPropagation)
                /\ pc' = "done"
                /\ UNCHANGED <<current_time, trackVars>>

\* fault variant: the propagated satellite is taken out of the registry
PropagateSatelliteReturnConsumes ==
    /\ UNCHANGED asideVars
    /\ pc = "sampling"
    /\ op = "propagate_satellite"
    /\ ~(current_time <= end_time)
    /\ response' = [status |-> 200,
                    satellite_id |-> satellite_id,
                    satellite_name |-> satellite_data.name,
                    propagation_data |-> FullTrack]
    /\ pc' = "done"
    /\ satellites' = RemoveAt(satellites, sat_idx)
    /\ UNCHANGED <<requestVars, loopVars, trackVars, combined_results, envVars>>

PropagateSatelliteReturn ==
    /\ UNCHANGED asideVars
    /\ pc = "sampling"
    /\ op = "propagate_satellite"
    /\ ~(current_time <= end_time)
    /\ response' = [status |-> 200,
                    satellite_id |-> satellite_id,
                    satellite_name |-> satellite_data.name,
                    propagation_data |-> FullTrack]
    /\ pc' = "done"
    /\ UNCHANGED <<satellites, requestVars, loopVars, trackVars, combined_results,
                   envVars>>

---------------------------------------------------------------------------
(* generate_ground_track *)

\* except Exception as e: return jsonify({'error': ...}), 500
GroundTrackFailure(error) == ErrorResponse(500, error)

GenerateGroundTrackBegin(sid, st, en, step) ==
    /\ UNCHANGED asideVars
    /\ pc = "idle"
    /\ op' = "generate_ground_track"
    /\ satellite_id' = sid
    /\ start_time' = st
    /\ end_time' = en
    /\ step_size' = step
    /\ UNCHANGED <<satellites, combined_results, oracle, calls>>
    /\ LET idx == FindIndex(sid)
           lines == TleLines(satellites[idx].tle)
       IN  IF idx = 0
           THEN /\ response' = ErrorResponse(404, ErrNotFound)
                /\ pc' = "done"
                /\ UNCHANGED <<loopVars, trackVars, constructed>>
           ELSE IF ~TleAccepted(lines)
           THEN /\ response' = ErrorResponse(400, ErrInvalidTle)
                /\ pc' = "done"
                /\ sat_idx' = idx
                /\ satellite_data' = satellites[idx]
                /\ tle_lines' = lines
                /\ UNCHANGED <<current_time, trackVars, constructed>>
           ELSE \E built \in ConstructAnswers(lines) :
                /\ constructed' = Remember(constructed, lines, built)
                /\ sat_idx' = idx
                /\ satellite_data' = satellites[idx]
                /\ tle_lines' = lines
                /\ ClearTrack
                /\ IF built
                   THEN /\ current_time' = st
                        /\ pc' = "sampling"
                        /\ UNCHANGED response
                   ELSE /\ response' = GroundTrackFailure(ErrGroundTrack)
                        /\ pc' = "done"
                        /\ UNCHANGED current_time

\* this handler keeps times, latitudes and longitudes only
GenerateGroundTrackSample ==
    /\ UNCHANGED asideVars
    /\ pc = "sampling"
    /\ op = "generate_ground_track"
    /\ current_time <= end_time
    /\ Len(times) < MaxSamples
    /\ UNCHANGED <<satellites, requestVars, sat_idx, satellite_data, tle_lines,
                   combined_results, constructed, elevations, positions, velocities>>
    /\ \E r \in Answers(SampleKey) :
        /\ CallCapability(r)
        /\ IF r.ok
           THEN /\ latitudes' = Append(latitudes, r.lat)
                /\ longitudes' = Append(longitudes, r.lon)
                /\ times' = Append(times, IsoFormat(current_time))
                /\ current_time' = current_time + Timedelta(step_size)
                /\ UNCHANGED <<pc, response>>
           ELSE /\ response' = GroundTrackFailure(ErrGroundTrack)
                /\ pc' = "done"
                /\ UNCHANGED <<current_time, times, latitudes, longitudes>>

\* sum(latitudes) / len(latitudes) raises ZeroDivisionError on an empty track
GenerateGroundTrackReturn ==
    /\ UNCHANGED asideVars
    /\ pc = "sampling"
    /\ op = "generate_ground_track"
    /\ ~(current_time <= end_time)
    /\ response' =
         IF Len(latitudes) = 0
         THEN GroundTrackFailure(ErrGroundTrack)
         ELSE LET center_lat == Mean(latitudes)
                  center_lon == Mean(longitudes)
              IN  [status |-> 200,
                   satellite_id |-> satellite_id,
                   satellite_name |-> satellite_data.name,
                   plot_data |-> plotly_map_plot(latitudes, longitudes, 2,
                                                 <<center_lon, center_lat>>),
                   propagation_data |-> [times |-> times, latitudes |-> latitudes,
                                         longitudes |-> longitudes]]
    /\ pc' = "done"
    /\ UNCHANGED <<satellites, requestVars, loopVars, trackVars, combined_results,
                   envVars>>

---------------------------------------------------------------------------
(* propagate_all_satellites *)

\* fault variant: an all-failed request is answered like an empty registry
BulkOutcomeAsEmpty(results) ==
    IF results = <<>>
    THEN ErrorResponse(404, ErrNoSatellites)
    ELSE [status |-> 200,
          satellites_count |-> Len(results),
          ground_track_data |-> BulkFigure(results),
          propagation_results |-> results]

\* fault variant: satellites_count counts the registry, not the retained tracks
BulkOutcomeCountAll(results) ==
    IF results = <<>>
    THEN ErrorResponse(500, ErrNonePropagated)
    ELSE [status |-> 200,
          satellites_count |-> Len(satellites),
          ground_track_data |-> BulkFigure(results),
          propagation_results |-> results]

\* if not combined_results: 500; else the figure and the success body
BulkOutcome(results) ==
    IF results = <<>>
    THEN ErrorResponse(500, ErrNonePropagated)
    ELSE [status |-> 200,
          satellites_count |-> Len(results),
          ground_track_data |-> BulkFigure(results),
          propagation_results |-> results]

PropagateAllBegin(st, en, step) ==
    /\ UNCHANGED asideVars
    /\ pc = "idle"
    /\ op' = "propagate_all_satellites"
    /\ satellite_id' = 0
    /\ start_time' = st
    /\ end_time' = en
    /\ step_size' = step
    /\ UNCHANGED <<satellites, satellite_data, tle_lines, current_time, trackVars,
                   envVars>>
    /\ IF Len(satellites) = 0
       THEN /\ response' = ErrorResponse(404, ErrNoSatellites)
            /\ pc' = "done"
            /\ UNCHANGED <<sat_idx, combined_results>>
       ELSE /\ combined_results' = <<>>
            /\ sat_idx' = 0
            /\ pc' = "next_satellite"
            /\ UNCHANGED response

\* the for loop takes the next registry entry: parse, construct, start sampling;
\* an entry that does not parse or does not construct is skipped
PropagateAllNext ==
    /\ UNCHANGED asideVars
    /\ pc = "next_satellite"
    /\ sat_idx < Len(satellites)
    /\ sat_idx' = sat_idx + 1
    /\ satellite_data' = satellites[sat_idx + 1]
    /\ UNCHANGED <<satellites, requestVars, combined_results, response, oracle, calls>>
    /\ LET lines == TleLines(satellites[sat_idx + 1].tle)
       IN  /\ tle_lines' = lines
           /\ IF ~TleAccepted(lines)
              THEN UNCHANGED <<pc, current_time, trackVars, constructed>>
              ELSE \E built \in ConstructAnswers(lines) :
                   /\ constructed' = Remember(constructed, lines, built)
                   /\ IF built
                      THEN /\ ClearTrack
                           /\ current_time' = start_time
                           /\ pc' = "sampling"
                      ELSE UNCHANGED <<pc, current_time, trackVars>>

\* fault variant: the samples taken before the failure are kept
BulkExceptKeepsPartial(results, data, track) ==
    Append(results, [satellite_id |-> data.id, satellite_name |-> data.name,
                     propagation_data |-> track])

\* except Exception as e: print(...) ; continue -- nothing of the satellite is kept
BulkExcept(results, data, track) == results

PropagateAllSample ==
    /\ UNCHANGED asideVars
    /\ pc = "sampling"
    /\ op = "propagate_all_satellites"
    /\ current_time <= end_time
    /\ Len(times) < MaxSamples
    /\ UNCHANGED <<satellites, requestVars, sat_idx, satellite_data, tle_lines,
                   constructed, response>>
    /\ \E r \in Answers(SampleKey) :
        /\ CallCapability(r)
        /\ combined_results' = IF r.ok THEN combined_results
                               ELSE BulkExcept(combined_results, satellite_data,
                                               FullTrack)
        /\ IF r.ok
           THEN /\ latitudes' = Append(latitudes, r.lat)
                /\ longitudes' = Append(longitudes, r.lon)
                /\ elevations' = Append(elevations, r.elev)
                /\ positions' = Append(positions, Position(r))
                /\ velocities' = Append(velocities, Velocity(r))
                /\ times' = Append(times, IsoFormat(current_time))
                /\ current_time' = current_time + Timedelta(step_size)
                /\ UNCHANGED pc
           ELSE /\ pc' = "next_satellite"
                /\ UNCHANGED <<current_time, trackVars>>

\* the sampling loop ended: combined_results.append({...})
\* fault variant: the newest track is put in front
RetainFirst(results, entry) == <<entry>> \o results

\* combined_results.append(entry)
Retain(results, entry) == Append(results, entry)

PropagateAllAppend ==
    /\ UNCHANGED asideVars
    /\ pc = "sampling"
    /\ op = "propagate_all_satellites"
    /\ ~(current_time <= end_time)
    /\ combined_results' = Retain(combined_results,
                                  [satellite_id |-> satellite_data.id,
                                   satellite_name |-> satellite_data.name,
                                   propagation_data |-> FullTrack])
    /\ pc' = "next_satellite"
    /\ UNCHANGED <<satellites, requestVars, loopVars, trackVars, response, envVars>>

\* the for loop is exhausted
PropagateAllReturn ==
    /\ UNCHANGED asideVars
    /\ pc = "next_satellite"
    /\ ~(sat_idx < Len(satellites))
    /\ response' = BulkOutcome(combined_results)
    /\ pc' = "done"
    /\ UNCHANGED <<satellites, requestVars, loopVars, trackVars, combined_results,
                   envVars>>

---------------------------------------------------------------------------
(* The request pipeline: the registry is filled, then one request is served *)

SatelliteIds == 1..(MaxSats + 1)

\* one request whose window and step come from the given sets, served to its end
Serve(starts, ends, steps) ==
    \/ \E sid \in SatelliteIds, st \in starts, en \in ends, step \in steps :
          PropagateSatelliteBegin(sid, st, en, step)
    \/ PropagateSatelliteSample
    \/ PropagateSatelliteReturn
    \/ \E sid \in SatelliteIds, st \in starts, en \in ends, step \in steps :
          GenerateGroundTrackBegin(sid, st, en, step)
    \/ GenerateGroundTrackSample
    \/ GenerateGroundTrackReturn
    \/ \E st \in starts, en \in ends, step \in steps :
          PropagateAllBegin(st, en, step)
    \/ PropagateAllNext
    \/ PropagateAllSample
    \/ PropagateAllAppend
    \/ PropagateAllReturn

Next ==
    \/ \E data \in Payloads : create_satellite(data)
    \/ Serve(StartValues, EndValues, Steps)

Spec == Init /\ [][Next]_vars

---------------------------------------------------------------------------
(* The parser on every element text: one satellite registered with an      *)
(* arbitrary text, then one request over a two-minute window               *)

TleTexts == SeqsUpTo(Chars, MaxTleLen)

OneMinute == [num |-> 1, den |-> 1]

InitParser ==
    /\ \E text \in TleTexts :
          satellites = << [id |-> 1, name |-> "ISS", tle |-> text] >>
    /\ Idle

NextParser == Serve({0}, {UsPerMinute}, {OneMinute})

SpecParser == InitParser /\ [][NextParser]_vars

---------------------------------------------------------------------------
(* The segmenter on every point sequence: plotly_map_plot and the inline   *)
(* copy of propagate_all_satellites applied to the same track              *)

SegLats == {0, 45}
SegLons == {-170, 10, 175}

InitSegmenter ==
    /\ satellites = << [id |-> 1, name |-> "ISS", tle |-> Tle1] >>
    /\ pc = "track"
    /\ op = "none"
    /\ satellite_id = 1
    /\ start_time = 0
    /\ end_time = 0
    /\ step_size = OneMinute
    /\ sat_idx = 1
    /\ satellite_data = satellites[1]
    /\ tle_lines = TleLines(Tle1)
    /\ current_time = 0
    /\ \E n \in 0..MaxPoints :
          /\ latitudes \in [1..n -> SegLats]
          /\ longitudes \in [1..n -> SegLons]
          /\ times = [k \in 1..n |-> IsoFormat(k * UsPerMinute)]
          /\ elevations = [k \in 1..n |-> 400000]
          /\ positions = [k \in 1..n |-> [x |-> 0, y |-> 0, z |-> 6800]]
          /\ velocities = [k \in 1..n |-> [x |-> 7, y |-> 0, z |-> 0]]
    /\ combined_results = <<>>
    /\ response = NoResponse
    /\ oracle = << >>
    /\ constructed = << >>
    /\ calls = <<>>
    /\ pending = <<>>
    /\ earlier = NoEarlier

\* fig = plotly_map_plot(latitudes, longitudes, zoom=2, center=[...])
ApplyPlotlyMapPlot ==
    /\ UNCHANGED asideVars
    /\ pc = "track"
    /\ op' = "plotly_map_plot"
    /\ response' = [status |-> 200,
                    plot_data |-> plotly_map_plot(latitudes, longitudes, 2,
                                                  <<MeanOrZero(longitudes),
                                                    MeanOrZero(latitudes)>>)]
    /\ pc' = "done"
    /\ UNCHANGED <<satellites, satellite_id, start_time, end_time, step_size,
                   loopVars, trackVars, combined_results, envVars>>

\* the figure propagate_all_satellites builds from this one track
ApplyBulkFigure ==
    /\ UNCHANGED asideVars
    /\ pc = "track"
    /\ op' = "propagate_all_satellites"
    /\ combined_results' = << [satellite_id |-> satellite_data.id,
                               satellite_name |-> satellite_data.name,
                               propagation_data |-> FullTrack] >>
    /\ response' = BulkOutcome(combined_results')
    /\ pc' = "done"
    /\ UNCHANGED <<satellites, satellite_id, start_time, end_time, step_size,
                   loopVars, trackVars, envVars>>

NextSegmenter == ApplyPlotlyMapPlot \/ ApplyBulkFigure

SpecSegmenter == InitSegmenter /\ [][NextSegmenter]_vars

---------------------------------------------------------------------------
(* The registry alone: any sequence of create_satellite and                *)
(* delete_satellite requests, one after the other                          *)

NextRegistry ==
    \/ \E data \in Payloads : create_satellite(data)
    \/ \E id \in SatelliteIds : delete_satellite(id)

SpecRegistry == Init /\ [][NextRegistry]_vars

---------------------------------------------------------------------------
(* Requests on several threads: while one propagate_all_satellites request *)
(* is being served, create_satellite and delete_satellite requests are     *)
(* served on other threads.  No handler takes a lock, so the steps of the  *)
(* handlers interleave freely                                              *)

\* what the concurrent create_satellite requests carry
LatePayloads == { [name |-> "NEW", tle |-> Tle1] }

\* satellite = {'id': len(satellites) + 1, ...}: the dict is built
CreateBuild(data) ==
    /\ pending' = Append(pending, [id |-> Len(satellites) + 1, name |-> data.name,
                                   tle |-> data.tle])
    /\ UNCHANGED <<satellites, pc, requestVars, loopVars, trackVars,
                   combined_results, response, envVars, earlier>>

\* satellites.append(satellite), by the k-th create_satellite in flight
CreateAppend(k) ==
    /\ k \in 1..Len(pending)
    /\ satellites' = Append(satellites, pending[k])
    /\ pending' = RemoveAt(pending, k)
    /\ UNCHANGED <<pc, requestVars, loopVars, trackVars, combined_results,
                   response, envVars, earlier>>

\* a delete_satellite on another thread that finds its entry
ConcurrentDelete(id) ==
    /\ FindIndex(id) # 0
    /\ satellites' = DeleteFrom(satellites, FindIndex(id))
    /\ UNCHANGED <<pc, requestVars, loopVars, trackVars, combined_results,
                   response, envVars, asideVars>>

\* the bulk request is being served
BulkRunning == pc \in {"next_satellite", "sampling"}

NextConcurrent ==
    \/ \E data \in Payloads : create_satellite(data)
    \/ PropagateAllBegin(0, 0, OneMinute)
    \/ PropagateAllNext
    \/ PropagateAllSample
    \/ PropagateAllAppend
    \/ PropagateAllReturn
    \/ /\ BulkRunning
       /\ Len(pending) < 2
       /\ Len(satellites) + Len(pending) < MaxSats + 1
       /\ \E data \in LatePayloads : CreateBuild(data)
    \/ \E k \in 1..2 : CreateAppend(k)
    \/ /\ BulkRunning
       /\ \E id \in SatelliteIds : ConcurrentDelete(id)

SpecConcurrent == Init /\ [][NextConcurrent]_vars

---------------------------------------------------------------------------
(* The same request served twice: the registry is filled, a request is     *)
(* served, and the same request is sent again.  The capability keeps the   *)
(* answers it gave; the handler's locals are left as the first run left    *)
(* them                                                                    *)

Repeat ==
    /\ pc = "done"
    /\ earlier = NoEarlier
    /\ earlier' = [op |-> op, satellite_id |-> satellite_id,
                   start_time |-> start_time, end_time |-> end_time,
                   step_size |-> step_size, response |-> response]
    /\ pc' = "idle"
    /\ response' = NoResponse
    /\ calls' = <<>>
    /\ UNCHANGED <<satellites, requestVars, loopVars, trackVars, combined_results,
                   oracle, constructed, pending>>

\* the request now received is the one served before
SameRequest ==
    /\ op' = earlier.op
    /\ satellite_id' = earlier.satellite_id
    /\ start_time' = earlier.start_time
    /\ end_time' = earlier.end_time
    /\ step_size' = earlier.step_size

NextRepeat ==
    \/ /\ earlier = NoEarlier
       /\ \E data \in Payloads : create_satellite(data)
    \/ /\ Serve(StartValues, EndValues, {OneMinute})
       /\ (pc = "idle" /\ earlier # NoEarlier) => SameRequest
    \/ Repeat

SpecRepeat == Init /\ [][NextRepeat]_vars

---------------------------------------------------------------------------
(* A bulk request over a registry larger than the color palette: up to     *)
(* MaxFleet satellites were registered, at most one of them with a         *)
(* malformed text, then one bulk request over a two-minute window          *)

\* the registry after n create_satellite calls; entry `bad` is malformed
Fleet(n, bad, flip) ==
    [i \in 1..n |->
        IF i = bad THEN [id |-> i, name |-> "BAD", tle |-> TleBad]
        ELSE IF (i % 2 = 1) = flip THEN [id |-> i, name |-> "ISS", tle |-> Tle1]
        ELSE [id |-> i, name |-> "HST", tle |-> Tle2]]

InitFleet ==
    /\ \E n \in 1..MaxFleet, bad \in 0..MaxFleet, flip \in BOOLEAN :
          /\ bad <= n
          /\ satellites = Fleet(n, bad, flip)
    /\ Idle

NextFleet ==
    \/ PropagateAllBegin(0, 2 * UsPerMinute, OneMinute)
    \/ PropagateAllNext
    \/ PropagateAllSample
    \/ PropagateAllAppend
    \/ PropagateAllReturn

SpecFleet == InitFleet /\ [][NextFleet]_vars

---------------------------------------------------------------------------
(* Vocabulary of the properties *)

SingleOps == {"propagate_satellite", "generate_ground_track"}

Min(S) == CHOOSE x \in S : \A y \in S : x <= y
Max(S) == CHOOSE x \in S : \A y \in S : y <= x

\* the text between its first and its last non-whitespace character
NonSpaceAt(text) == {i \in 1..Len(text) : text[i] \notin {SP, NL}}
Trimmed(text) ==
    IF NonSpaceAt(text) = {} THEN <<>>
    ELSE SubSeq(text, Min(NonSpaceAt(text)), Max(NonSpaceAt(text)))
BreakCount(text) == Cardinality({i \in 1..Len(text) : text[i] = NL})
ExactlyTwoLines(text) == BreakCount(Trimmed(text)) = 1

\* the instant an isoformat() value denotes, in microseconds
Decode(iso) == iso.sec * UsPerSecond + iso.us

\* the tracks a handler has completed: returned by a single-satellite handler,
\* or retained by propagate_all_satellites
CompletedTracks ==
    IF op \in SingleOps
    THEN IF pc = "done" /\ response.status = 200
         THEN {response.propagation_data} ELSE {}
    ELSE IF op = "propagate_all_satellites"
    THEN {combined_results[i].propagation_data : i \in 1..Len(combined_results)}
    ELSE {}

\* the tracks a handler holds, completed or still being sampled
HeldTracks ==
    CompletedTracks \cup
    (IF pc = "sampling"
     THEN {[times |-> times, latitudes |-> latitudes, longitudes |-> longitudes]}
     ELSE {})

\* the request got past the registry lookup and the element text check
Admitted ==
    /\ op \in SingleOps
    /\ sat_idx # 0
    /\ TleAccepted(tle_lines)
    /\ tle_lines \in DOMAIN constructed
    /\ constructed[tle_lines]

CapabilityFailed == \E key \in DOMAIN oracle : ~oracle[key].ok

\* the traces of the figure a finished request returned
Traces ==
    IF op \in {"generate_ground_track", "plotly_map_plot"}
    THEN response.plot_data.data
    ELSE response.ground_track_data.data

HasFigure ==
    /\ pc = "done"
    /\ response.status = 200
    /\ op \in {"generate_ground_track", "plotly_map_plot", "propagate_all_satellites"}

\* the 1-based positions after which a segment of the figure ends
SegmentEnds(tr) == {Sum([j \in 1..k |-> Len(tr[j].lon)]) : k \in 1..Len(tr)}

ErrInvalidTimeWindow == "Invalid time window"

---------------------------------------------------------------------------
(* Properties *)

\* C1: for start <= end and step > 0 every completed track holds exactly
\* floor((end - start) / step) + 1 samples.
C1_SampleCount ==
    (start_time <= end_time /\ step_size.num > 0) =>
        \A track \in CompletedTracks :
            Len(track.times) =
                (((end_time - start_time) * step_size.den)
                    \div (step_size.num * UsPerMinute)) + 1

\* C2: the recorded instants are t_k = start + k*step, strictly increasing and
\* none after end.
C2_SampleInstants ==
    (start_time <= end_time /\ step_size.num > 0) =>
        \A track \in HeldTracks :
            \A k \in 1..Len(track.times) :
                /\ Decode(track.times[k]) * step_size.den =
                      start_time * step_size.den
                      + (k - 1) * step_size.num * UsPerMinute
                /\ Decode(track.times[k]) <= end_time
                /\ k > 1 => Decode(track.times[k - 1]) < Decode(track.times[k])

\* C3: a window with start > end gives an empty track and a successful result.
C3_EmptyWindowSucceeds ==
    (pc = "done" /\ start_time > end_time /\ step_size.num > 0) =>
        /\ Admitted =>
              /\ response.status = 200
              /\ response.propagation_data.times = <<>>
        /\ (op = "propagate_all_satellites" /\ combined_results # <<>>) =>
              /\ response.status = 200
              /\ \A i \in 1..Len(combined_results) :
                    combined_results[i].propagation_data.times = <<>>

\* C4: a request whose step is <= 0 is answered with InvalidTimeWindow and
\* takes no sample.
C4_NonPositiveStepRejected ==
    (step_size.num <= 0
        /\ (Admitted \/ (op = "propagate_all_satellites" /\ Len(satellites) > 0))) =>
        /\ calls = <<>>
        /\ pc = "done" =>
              /\ response.status >= 400
              /\ response.error = ErrInvalidTimeWindow

\* C5: a single-satellite request is answered "Invalid TLE data format" exactly
\* when the trimmed element text does not hold exactly one line break; the two
\* lines of an accepted text are non-empty and are the two parts of the trimmed
\* text.
C5_ParserAcceptsExactlyTwoLines ==
    (op \in SingleOps /\ sat_idx # 0) =>
        LET text == satellites[sat_idx].tle
            rejected == pc = "done" /\ response = ErrorResponse(400, ErrInvalidTle)
        IN  /\ rejected <=> ~ExactlyTwoLines(text)
            /\ ~rejected =>
                  /\ Len(tle_lines) = 2
                  /\ tle_lines[1] # <<>>
                  /\ tle_lines[2] # <<>>
                  /\ tle_lines[1] \o <<NL>> \o tle_lines[2] = Trimmed(text)

\* an accepted text from which strip() removed a leading line break
C5_Witness ==
    /\ op = "propagate_satellite"
    /\ pc = "done"
    /\ response.status = 200
    /\ satellites[1].tle = <<NL, "1", NL, "2">>

\* C6: the segments of a figure, concatenated in order, are the track: no point
\* is duplicated, dropped, reordered or replaced, and latitude stays paired with
\* longitude.
C6_SegmentsRoundTrip ==
    HasFigure /\ op \in {"plotly_map_plot", "propagate_all_satellites"} =>
        /\ Flatten([i \in 1..Len(Traces) |-> Traces[i].lat]) = latitudes
        /\ Flatten([i \in 1..Len(Traces) |-> Traces[i].lon]) = longitudes
        /\ \A i \in 1..Len(Traces) : Len(Traces[i].lat) = Len(Traces[i].lon)

\* a track of at least three points cut into at least two segments
C6_Witness ==
    /\ HasFigure
    /\ op = "plotly_map_plot"
    /\ Len(longitudes) >= 3
    /\ Len(Traces) >= 2

\* C7: points i and i+1 lie in different segments exactly when their longitudes
\* differ by more than 180; a difference of exactly 180 does not split.
C7_SplitIffCrossing ==
    HasFigure /\ op \in {"plotly_map_plot", "propagate_all_satellites"} =>
        \A i \in 1..(Len(longitudes) - 1) :
            (i \in SegmentEnds(Traces)) <=>
                (Abs(longitudes[i + 1] - longitudes[i]) > 180)

\* a track with a step of exactly 180 degrees and a crossing, segmented inline
C7_Witness ==
    /\ HasFigure
    /\ op = "propagate_all_satellites"
    /\ \E i \in 1..(Len(longitudes) - 1) :
          Abs(longitudes[i + 1] - longitudes[i]) = 180
    /\ \E i \in 1..(Len(longitudes) - 1) :
          Abs(longitudes[i + 1] - longitudes[i]) > 180

\* a registry entry fails when its text is malformed, its construction fails
\* or the capability fails at an instant
SatelliteFails(i) ==
    LET lines == TleLines(satellites[i].tle)
    IN  \/ ~ExactlyTwoLines(satellites[i].tle)
        \/ lines \in DOMAIN constructed /\ ~constructed[lines]
        \/ \E key \in DOMAIN oracle : key[1] = lines /\ ~oracle[key].ok

FailCount == Cardinality({i \in 1..Len(satellites) : SatelliteFails(i)})

\* C8: with N >= 1 satellites of which K fail, the bulk result holds N - K
\* tracks, and it is "Failed to propagate any satellites" exactly when K = N.
C8_BulkCount ==
    (pc = "done" /\ op = "propagate_all_satellites" /\ Len(satellites) >= 1) =>
        IF FailCount = Len(satellites)
        THEN response = ErrorResponse(500, ErrNonePropagated)
        ELSE /\ response.status = 200
             /\ response.satellites_count = Len(satellites) - FailCount
             /\ Len(response.propagation_results) = Len(satellites) - FailCount

\* two satellites, one of them with a malformed text: one track, no failure
C8_Witness ==
    /\ pc = "done"
    /\ op = "propagate_all_satellites"
    /\ Len(satellites) = 2
    /\ \E i \in 1..2 : ~ExactlyTwoLines(satellites[i].tle)
    /\ response.status = 200
    /\ response.satellites_count = 1

\* C9: every figure shows exactly one legend entry per satellite, on the
\* satellite's first segment.
C9_OneLegendEntryPerSatellite ==
    HasFigure /\ op \in {"generate_ground_track", "propagate_all_satellites"} =>
        LET shown == {i \in 1..Len(Traces) : Traces[i].showlegend}
            count == IF op = "generate_ground_track" THEN 1
                     ELSE Len(response.propagation_results)
        IN  /\ Cardinality(shown) = count
            /\ 1 \in shown

\* C10: when the capability fails at an instant, a single-satellite request
\* ends at once with the 500 error, and the response holds the error alone.
C10_SingleAllOrNothing ==
    (op \in SingleOps /\ CapabilityFailed) =>
        /\ pc = "done"
        /\ response.status = 500
        /\ response.error \in {ErrPropagation, ErrGroundTrack}
        /\ DOMAIN response = {"status", "error"}

\* the capability failed after a first sample had been collected
C10_Witness ==
    /\ op = "generate_ground_track"
    /\ pc = "done"
    /\ CapabilityFailed
    /\ Len(latitudes) >= 1

BulkDone ==
    /\ pc = "done"
    /\ op = "propagate_all_satellites"
    /\ Len(satellites) >= 1

\* the registry position of the entry with this id
RegistryIndex(id) == CHOOSE i \in 1..Len(satellites) : satellites[i].id = id

\* the track is the one its own element lines and the requested grid determine:
\* it starts at start_time, advances by the step up to end_time, and every
\* sample is the sub-point the capability gives for these lines
OwnTrack(lines, track) ==
    LET n == Len(track.times)
        td == Timedelta(step_size)
    IN  /\ Len(track.latitudes) = n
        /\ Len(track.longitudes) = n
        /\ (n = 0) = (start_time > end_time)
        /\ n > 0 => /\ track.times[1] = IsoFormat(start_time)
                    /\ Decode(track.times[n]) + td > end_time
        /\ \A k \in 1..(n - 1) :
              Decode(track.times[k + 1]) = Decode(track.times[k]) + td
        /\ \A k \in 1..n :
              LET p == Subpoint(lines, UtcInstant(Decode(track.times[k])))
              IN  /\ Decode(track.times[k]) <= end_time
                  /\ track.latitudes[k] = p.lat
                  /\ track.longitudes[k] = p.lon

\* C11: a satellite that fails in a bulk request is isolated: every registry
\* entry is still attempted, every satellite that does not fail is retained
\* with the track its own elements and the grid determine, and no sample of a
\* failed satellite is in the results, in the figure or in the center.
C11_FailureIsolation ==
    BulkDone =>
        /\ sat_idx = Len(satellites)
        /\ \A i \in 1..Len(satellites) :
              /\ ExactlyTwoLines(satellites[i].tle) =>
                    TleLines(satellites[i].tle) \in DOMAIN constructed
              /\ ~SatelliteFails(i) =>
                    \E j \in 1..Len(combined_results) :
                        combined_results[j].satellite_id = satellites[i].id
        /\ \A j \in 1..Len(combined_results) :
              LET i == RegistryIndex(combined_results[j].satellite_id)
              IN  /\ ~SatelliteFails(i)
                  /\ combined_results[j].satellite_name = satellites[i].name
                  /\ OwnTrack(TleLines(satellites[i].tle),
                              combined_results[j].propagation_data)
        /\ response.status = 200 =>
              LET lats == Flatten([k \in 1..Len(Traces) |-> Traces[k].lat])
                  lons == Flatten([k \in 1..Len(Traces) |-> Traces[k].lon])
                  c == response.ground_track_data.center
              IN  /\ response.propagation_results = combined_results
                  /\ lats = Extend(combined_results, "latitudes")
                  /\ lons = Extend(combined_results, "longitudes")
                  /\ lats # <<>> => /\ c.lat = [num |-> Sum(lats), den |-> Len(lats)]
                                    /\ c.lon = [num |-> Sum(lons), den |-> Len(lons)]

\* the first satellite failed inside the capability after a sample was taken,
\* the second one was still propagated and is the only track of the result
C11_Witness ==
    /\ BulkDone
    /\ response.status = 200
    /\ Len(satellites) >= 2
    /\ \E c1, c2 \in 1..Len(calls) :
          /\ c1 < c2
          /\ calls[c1].idx = 1
          /\ calls[c2].idx = 1
          /\ ~oracle[<<TleLines(satellites[1].tle), calls[c2].instant>>].ok
    /\ ~SatelliteFails(2)
    /\ Len(combined_results) = 1
    /\ Len(combined_results[1].propagation_data.times) >= 2

\* the ids of the registry entries that do not fail, in registry order
SurvivorIds ==
    LET keep == SelectSeq([i \in 1..Len(satellites) |-> i],
                          LAMBDA i : ~SatelliteFails(i))
    IN  [j \in 1..Len(keep) |-> satellites[keep[j]].id]

\* C12: the tracks of a bulk result are in registry order with the failed
\* satellites removed, no track moved and none repeated.
C12_RegistryOrder ==
    BulkDone =>
        /\ [j \in 1..Len(combined_results) |-> combined_results[j].satellite_id]
              = SurvivorIds
        /\ response.status = 200 => response.propagation_results = combined_results

\* two satellites were retained, the earlier registered one first
C12_Witness ==
    /\ BulkDone
    /\ response.status = 200
    /\ Len(response.propagation_results) = 2
    /\ response.propagation_results[1].satellite_id = satellites[1].id
    /\ response.propagation_results[2].satellite_id = satellites[2].id
    /\ satellites[1].id # satellites[2].id
    /\ response.propagation_results[1].propagation_data.times # <<>>

\* the number of segments a track is drawn with: one more than its crossings
SegCount(track) ==
    IF track.longitudes = <<>> THEN 0
    ELSE 1 + Cardinality({k \in 1..(Len(track.longitudes) - 1) :
                Abs(track.longitudes[k + 1] - track.longitudes[k]) > 180})

\* the number of traces that precede the traces of the j-th retained track
TraceOffset(j) ==
    Sum([m \in 1..(j - 1) |-> SegCount(combined_results[m].propagation_data)])

\* C13: the retained track at output index i (from 0) is drawn in
\* colors[i mod 10], on every one of its segments; indices i and i + 10 get
\* the same color.
C13_ColorByOutputIndex ==
    (BulkDone /\ response.status = 200) =>
        /\ Len(colors) = 10
        /\ Len(Traces) = TraceOffset(Len(combined_results) + 1)
        /\ \A j \in 1..Len(combined_results) :
              \A k \in 1..SegCount(combined_results[j].propagation_data) :
                 LET tr == Traces[TraceOffset(j) + k]
                 IN  /\ tr.color = colors[((j - 1) % 10) + 1]
                     /\ tr.name = combined_results[j].satellite_name
                     /\ (j > 10) =>
                           tr.color = Traces[TraceOffset(j - 10) + 1].color

\* eleven tracks were retained behind a malformed first registry entry: the
\* eleventh is drawn in the color of the first, and a track has two segments
C13_Witness ==
    /\ BulkDone
    /\ response.status = 200
    /\ ~ExactlyTwoLines(satellites[1].tle)
    /\ Len(combined_results) = 11
    /\ combined_results[1].satellite_id = 2
    /\ Traces[TraceOffset(11) + 1].color = colors[1]
    /\ Traces[1].color = colors[1]
    /\ \E j \in 1..11 : SegCount(combined_results[j].propagation_data) = 2

\* the fraction c is the arithmetic mean of the numbers that add up to
\* `total` and are `count` many
IsMeanOf(c, total, count) ==
    /\ c.den > 0
    /\ c.num * count = total * c.den

PooledSum(field) ==
    Sum([j \in 1..Len(combined_results) |->
            Sum(combined_results[j].propagation_data[field])])

PooledCount ==
    Sum([j \in 1..Len(combined_results) |->
            Len(combined_results[j].propagation_data.latitudes)])

\* C14: the center of the combined view is the mean over all points of all
\* retained tracks, the center of a single ground track is the mean of that
\* track's points, and latitude and longitude keep their places.
C14_CenterIsPooledMean ==
    /\ (BulkDone /\ response.status = 200 /\ PooledCount > 0) =>
          /\ IsMeanOf(response.ground_track_data.center.lat,
                      PooledSum("latitudes"), PooledCount)
          /\ IsMeanOf(response.ground_track_data.center.lon,
                      PooledSum("longitudes"), PooledCount)
    /\ (pc = "done" /\ op = "generate_ground_track" /\ response.status = 200) =>
          /\ IsMeanOf(response.plot_data.center.lat,
                      Sum(response.propagation_data.latitudes),
                      Len(response.propagation_data.latitudes))
          /\ IsMeanOf(response.plot_data.center.lon,
                      Sum(response.propagation_data.longitudes),
                      Len(response.propagation_data.longitudes))

\* two different tracks were pooled, and the mean latitude differs from the
\* mean longitude and from the mean of the first track
C14_Witness ==
    /\ BulkDone
    /\ response.status = 200
    /\ Len(combined_results) = 2
    /\ PooledCount >= 4
    /\ combined_results[1].propagation_data.latitudes
          # combined_results[2].propagation_data.latitudes
    /\ ~IsMeanOf(response.ground_track_data.center.lat, PooledSum("longitudes"),
                 PooledCount)
    /\ ~IsMeanOf(response.ground_track_data.center.lat,
                 Sum(combined_results[1].propagation_data.latitudes),
                 Len(combined_results[1].propagation_data.latitudes))

BulkFinished == pc = "done" /\ op = "propagate_all_satellites"

\* the response is an error body with this message
IsError(error) == response.status >= 400 /\ response.error = error

CapabilityUntouched ==
    /\ calls = <<>>
    /\ oracle = << >>
    /\ constructed = << >>

\* C15: a bulk request on an empty registry ends with "No satellites available
\* to propagate" (404) without any use of the capability; a bulk request on a
\* non-empty registry in which every satellite failed ends with "Failed to
\* propagate any satellites" (500); neither outcome occurs in the other case.
C15_EmptyVersusAllFailed ==
    BulkFinished =>
        /\ Len(satellites) = 0 =>
              /\ response = ErrorResponse(404, ErrNoSatellites)
              /\ CapabilityUntouched
        /\ (Len(satellites) >= 1 /\ FailCount = Len(satellites)) =>
              response = ErrorResponse(500, ErrNonePropagated)
        /\ (response.status = 404 \/ IsError(ErrNoSatellites)) =>
              Len(satellites) = 0
        /\ (response.status = 500 \/ IsError(ErrNonePropagated)) =>
              /\ Len(satellites) >= 1
              /\ FailCount = Len(satellites)
        /\ ErrorResponse(404, ErrNoSatellites) # ErrorResponse(500, ErrNonePropagated)

\* every satellite of a two-entry registry failed, one of them inside the
\* capability
C15_Witness ==
    /\ BulkFinished
    /\ Len(satellites) = 2
    /\ FailCount = 2
    /\ CapabilityFailed
    /\ response = ErrorResponse(500, ErrNonePropagated)

\* the bulk request found the registry empty
C15_WitnessEmpty ==
    /\ BulkFinished
    /\ Len(satellites) = 0
    /\ response = ErrorResponse(404, ErrNoSatellites)

\* the number of consecutive point pairs more than 180 degrees apart
Crossings(lons) ==
    Cardinality({i \in 1..(Len(lons) - 1) : Abs(lons[i + 1] - lons[i]) > 180})

\* C16: the segmenter gives no segment for an empty track; for a non-empty
\* track it gives crossings + 1 segments, none of them empty, and the last
\* points of the track are the last segment.
C16_SegmentShape ==
    HasFigure /\ op \in {"plotly_map_plot", "propagate_all_satellites"} =>
        /\ longitudes = <<>> => Len(Traces) = 0
        /\ longitudes # <<>> =>
              /\ Len(Traces) = Crossings(longitudes) + 1
              /\ \A i \in 1..Len(Traces) :
                    /\ Traces[i].lon # <<>>
                    /\ Traces[i].lat # <<>>
              /\ LET last == Traces[Len(Traces)]
                 IN  /\ last.lon[Len(last.lon)] = longitudes[Len(longitudes)]
                     /\ last.lat[Len(last.lat)] = latitudes[Len(latitudes)]

\* the track crosses between its last two points, so its last segment is the
\* last point alone
C16_Witness ==
    /\ HasFigure
    /\ op = "plotly_map_plot"
    /\ Len(longitudes) >= 3
    /\ Abs(longitudes[Len(longitudes)] - longitudes[Len(longitudes) - 1]) > 180
    /\ Len(Traces) = Crossings(longitudes) + 1
    /\ Len(Traces[Len(Traces)].lon) = 1

\* an empty track was segmented
C16_WitnessEmpty ==
    /\ HasFigure
    /\ op \in {"plotly_map_plot", "propagate_all_satellites"}
    /\ longitudes = <<>>
    /\ Len(Traces) = 0

\* the registry entries whose text is exactly two lines once trimmed
WellFormed == {i \in 1..Len(satellites) : ExactlyTwoLines(satellites[i].tle)}

\* C17: the element text is validated before the capability is used: no
\* constructor call and no propagation call is ever made for a satellite whose
\* text is not exactly two lines; a single-satellite request for it ends with
\* "Invalid TLE data format" (400), a bulk request skips it.
C17_ValidationFirst ==
    /\ \A k \in 1..Len(calls) : calls[k].idx \in WellFormed
    /\ \A lines \in DOMAIN constructed :
          \E i \in WellFormed : lines = TleLines(satellites[i].tle)
    /\ \A key \in DOMAIN oracle :
          \E i \in WellFormed : key[1] = TleLines(satellites[i].tle)
    /\ pc = "sampling" => sat_idx \in WellFormed
    /\ (pc = "done" /\ op \in SingleOps /\ sat_idx # 0 /\ sat_idx \notin WellFormed) =>
          /\ response = ErrorResponse(400, ErrInvalidTle)
          /\ CapabilityUntouched
    /\ (BulkDone /\ WellFormed = {}) =>
          /\ response = ErrorResponse(500, ErrNonePropagated)
          /\ CapabilityUntouched

\* a request for a satellite whose text has a blank line between its two
\* element lines was rejected without any use of the capability
C17_Witness ==
    /\ pc = "done"
    /\ op \in SingleOps
    /\ sat_idx = 1
    /\ satellites[1].tle = <<"1", NL, NL, "2">>
    /\ response = ErrorResponse(400, ErrInvalidTle)
    /\ CapabilityUntouched

\* a bulk request skipped a satellite whose text is a single line
C17_WitnessBulk ==
    /\ BulkDone
    /\ satellites[1].tle = <<"1", "2">>
    /\ sat_idx = 1
    /\ CapabilityUntouched

\* what the capability answered to the k-th propagation call
Answered(k) ==
    oracle[<<TleLines(satellites[calls[k].idx].tle), calls[k].instant>>]

\* no call for a satellite follows a failed call for it, and the calls for one
\* satellite are not interleaved with those for another
NoRetry ==
    \A a, b \in 1..Len(calls) :
        (a < b /\ calls[a].idx = calls[b].idx) =>
            /\ Answered(a).ok
            /\ \A m \in a..b : calls[m].idx = calls[a].idx

\* C18: for a request with step > 0 the capability is invoked once per sample
\* instant of a satellite, in increasing instant order, and never again for a
\* satellite after its first failure.
C18_SinglePass ==
    step_size.num > 0 =>
        /\ NoRetry
        /\ \A a, b \in 1..Len(calls) :
              (a < b /\ calls[a].idx = calls[b].idx) => calls[a].at < calls[b].at

\* C19: every sample of a track was computed for exactly its recorded instant:
\* the capability was handed the instant written to the times list, sub-second
\* part included.
C19_HandedInstantIsRecorded ==
    step_size.num > 0 =>
        \A track \in HeldTracks :
            \A k \in 1..Len(track.times) :
                \E c \in 1..Len(calls) :
                    /\ calls[c].at = Decode(track.times[k])
                    /\ calls[c].instant * UsPerSecond = Decode(track.times[k])

\* the distance the sampling loop still has to cover
Remaining == end_time - current_time

\* C20: a request with step > 0 terminates: every iteration of the sampling
\* loop brings current_time closer to end_time, and every iteration of the bulk
\* loop moves on to the next registry entry.
C20_Terminates ==
    [][ /\ (pc = "sampling" /\ pc' = "sampling" /\ step_size.num > 0) =>
              Remaining' < Remaining
        /\ (pc = "next_satellite" /\ pc' # "done") => sat_idx' = sat_idx + 1
      ]_vars

PropagationOps ==
    {"propagate_satellite", "generate_ground_track", "propagate_all_satellites"}

\* C21: every step of propagate_satellite, generate_ground_track and
\* propagate_all_satellites leaves the registry as it was: same entries, same
\* order, same field values, whatever the outcome.
C21_RegistryReadOnly ==
    [][(op' \in PropagationOps /\ pc' # "idle") => satellites' = satellites]_vars

\* a request on a registry of two satellites has returned
C21_Witness ==
    /\ pc = "done"
    /\ op \in PropagationOps
    /\ Len(satellites) = 2
    /\ response.status \in {200, 500}
    /\ calls # <<>>

\* C22: with a deterministic capability the same request on the same registry
\* gives the same response twice: the same outcome, the same tracks and the
\* same plot descriptor (segments, order, colors, legend flags, center, zoom).
C22_Deterministic ==
    (pc = "done" /\ earlier # NoEarlier) => response = earlier.response

\* a bulk request that lost one satellite to a capability failure and drew the
\* other one was served a second time
C22_Witness ==
    /\ pc = "done"
    /\ earlier # NoEarlier
    /\ earlier.op = "propagate_all_satellites"
    /\ earlier.response.status = 200
    /\ Len(earlier.response.ground_track_data.data) >= 1
    /\ Len(satellites) = 2
    /\ CapabilityFailed
    /\ calls # <<>>

\* the segments a figure's traces were built from
SegmentsOf(tr) ==
    [lat_segments |-> [i \in 1..Len(tr) |-> tr[i].lat],
     lon_segments |-> [i \in 1..Len(tr) |-> tr[i].lon]]

\* C23: the segmenter of plotly_map_plot and the inline segmenter of
\* propagate_all_satellites give the same segments for the same track: the
\* same number of segments and the same points in each.
C23_SegmenterCopiesAgree ==
    /\ PlotSegments(latitudes, longitudes)
          = BulkSegments([latitudes |-> latitudes, longitudes |-> longitudes])
    /\ (HasFigure /\ op = "plotly_map_plot") =>
          SegmentsOf(Traces)
             = BulkSegments([latitudes |-> latitudes, longitudes |-> longitudes])
    /\ (HasFigure /\ op = "propagate_all_satellites") =>
          SegmentsOf(Traces) = PlotSegments(latitudes, longitudes)

\* the inline copy has cut a track of four points at two crossings
C23_Witness ==
    /\ HasFigure
    /\ op = "propagate_all_satellites"
    /\ Len(longitudes) = 4
    /\ Len(Traces) = 3
    /\ SegmentsOf(Traces) = PlotSegments(latitudes, longitudes)

\* the instants start, start + step, ... up to end, none missing
CoversGrid(ts) ==
    LET n == Len(ts)
        td == Timedelta(step_size)
    IN  /\ (n = 0) = (start_time > end_time)
        /\ n > 0 => /\ ts[1] = IsoFormat(start_time)
                    /\ Decode(ts[n]) <= end_time
                    /\ Decode(ts[n]) + td > end_time
        /\ \A k \in 1..(n - 1) : Decode(ts[k + 1]) = Decode(ts[k]) + td

\* C24: every track propagate_all_satellites retains covers the whole time
\* grid, so all retained tracks of a request have the same times sequence and
\* none holds only a prefix of the grid.
C24_RetainedTracksCoverGrid ==
    op = "propagate_all_satellites" =>
        \A i \in 1..Len(combined_results) :
            /\ CoversGrid(combined_results[i].propagation_data.times)
            /\ \A j \in 1..Len(combined_results) :
                  combined_results[i].propagation_data.times
                     = combined_results[j].propagation_data.times

\* two tracks of three samples each were retained
C24_Witness ==
    /\ BulkDone
    /\ response.status = 200
    /\ Len(combined_results) = 2
    /\ Len(combined_results[1].propagation_data.times) = 3
    /\ combined_results[1].propagation_data.times
          = combined_results[2].propagation_data.times
    /\ combined_results[1].propagation_data.latitudes
          # combined_results[2].propagation_data.latitudes

\* the lists of a track have one length, and entry k of each list is taken
\* from the one answer the capability gave in the iteration that recorded
\* times[k]; `fields` are the lists the track carries besides times
AlignedTrack(lines, track, fields) ==
    /\ \A f \in fields : Len(track[f]) = Len(track.times)
    /\ \A k \in 1..Len(track.times) :
          LET key == <<lines, UtcInstant(Decode(track.times[k]))>>
          IN  /\ \E c \in 1..Len(calls) : calls[c].at = Decode(track.times[k])
              /\ key \in DOMAIN oracle
              /\ oracle[key].ok
              /\ track.latitudes[k] = oracle[key].lat
              /\ track.longitudes[k] = oracle[key].lon
              /\ "elevations" \in fields => track.elevations[k] = oracle[key].elev
              /\ "positions" \in fields => track.positions[k] = Position(oracle[key])
              /\ "velocities" \in fields => track.velocities[k] = Velocity(oracle[key])

GeodeticLists == {"latitudes", "longitudes"}
StateLists == {"latitudes", "longitudes", "elevations", "positions", "velocities"}

\* C25: in every track an operation returns or retains, and in the lists of
\* the sampling loop after each iteration, times, latitudes, longitudes (and
\* elevations, positions, velocities where present) have one length and index
\* k of each belongs to the same sample.
C25_ParallelListsAligned ==
    /\ (pc = "sampling" /\ op # "generate_ground_track") =>
          AlignedTrack(tle_lines, FullTrack, StateLists)
    /\ (pc = "sampling" /\ op = "generate_ground_track") =>
          AlignedTrack(tle_lines, FullTrack, GeodeticLists)
    /\ (pc = "done" /\ op = "propagate_satellite" /\ response.status = 200) =>
          AlignedTrack(tle_lines, response.propagation_data, StateLists)
    /\ (pc = "done" /\ op = "generate_ground_track" /\ response.status = 200) =>
          AlignedTrack(tle_lines, response.propagation_data, GeodeticLists)
    /\ op = "propagate_all_satellites" =>
          \A j \in 1..Len(combined_results) :
              AlignedTrack(
                  TleLines(satellites[RegistryIndex(combined_results[j].satellite_id)].tle),
                  combined_results[j].propagation_data, StateLists)

\* the second satellite of a bulk request is being sampled after the first was
\* retained, and both tracks hold samples
C25_Witness ==
    /\ pc = "sampling"
    /\ op = "propagate_all_satellites"
    /\ sat_idx = 2
    /\ Len(combined_results) = 1
    /\ Len(combined_results[1].propagation_data.times) >= 2
    /\ Len(times) >= 2
    /\ Len(velocities) = Len(times)

\* C26: after any sequence of create_satellite and delete_satellite requests
\* the satellites of the registry have pairwise distinct ids.
C26_DistinctIds ==
    \A i, j \in 1..Len(satellites) :
        i # j => satellites[i].id # satellites[j].id

\* C27: delete_satellite(id) removes the first entry whose id matches and only
\* that one, keeping the other entries and their order; when no entry matches
\* it answers not found and leaves the registry as it was.
C27_DeleteFrame ==
    [][ Len(satellites') <= Len(satellites) =>
          LET hits == {i \in 1..Len(satellites) : satellites[i].id = satellite_id'}
          IN  IF hits = {}
              THEN /\ satellites' = satellites
                   /\ response' = ErrorResponse(404, ErrIdNotFound)
              ELSE /\ Len(satellites') = Len(satellites) - 1
                   /\ \A i \in 1..Len(satellites') :
                         satellites'[i] = IF i < Min(hits) THEN satellites[i]
                                          ELSE satellites[i + 1]
                   /\ response'.status = 200
                   /\ response'.deleted = satellites[Min(hits)]
      ]_vars

\* of two different entries with the same id the first was deleted and the
\* second is still registered
C27_Witness ==
    /\ op = "delete_satellite"
    /\ response.status = 200
    /\ Len(satellites) = 1
    /\ response.deleted.id = satellites[1].id
    /\ response.deleted.name = "HST"
    /\ satellites[1].name = "ISS"

\* a delete request named an id no entry has
C27_WitnessNotFound ==
    /\ op = "delete_satellite"
    /\ response = ErrorResponse(404, ErrIdNotFound)
    /\ Len(satellites) = 2

\* the names of the satellites registered before the bulk request began
EarlyNames == {p.name : p \in Payloads}

\* every satellite the finished bulk request found registered from its
\* beginning to its end, and that does not fail, has exactly one track
C28_EveryoneAttemptedOnce ==
    (pc = "done" /\ op = "propagate_all_satellites") =>
        \A i \in 1..Len(satellites) :
            (satellites[i].name \in EarlyNames /\ ~SatelliteFails(i)) =>
                Cardinality({j \in 1..Len(combined_results) :
                                combined_results[j].satellite_id = satellites[i].id
                             /\ combined_results[j].satellite_name = satellites[i].name})
                   = 1

\* two create_satellite requests in flight together hold different ids
C28_ConcurrentCreatesDistinct ==
    \A i, j \in 1..Len(pending) : i # j => pending[i].id # pending[j].id

\* C28: registry access is guarded against concurrent requests: a bulk request
\* interleaved with create_satellite and delete_satellite attempts every
\* satellite registered for its whole duration exactly once, and two
\* concurrent create_satellite requests never assign the same id.
C28_GuardedRegistry ==
    /\ C28_EveryoneAttemptedOnce
    /\ C28_ConcurrentCreatesDistinct

====
